---------------------------- MODULE Spec2Model ----------------------------
(***************************************************************************)
(* IntervalDS (src/src/types/interval_ds.rs): the Oracle INTERVAL DAY TO   *)
(* SECOND value, its Display encoder, its FromStr decoder, and_prec and    *)
(* PartialEq.                                                              *)
(*                                                                         *)
(* Text is a sequence of one-character strings.  i32 values are TLA+       *)
(* integers in -2^31 .. 2^31-1; the u64 a digit run parses to is four      *)
(* 16-bit limbs, most significant first, so that the `as i32` cast keeps   *)
(* its width.  Arithmetic that overflows panics when the build has         *)
(* overflow checks (debug) and wraps when it has none (release): every     *)
(* operation that can overflow takes the build's `checks` flag, and the    *)
(* actions choose it nondeterministically.                                 *)
(***************************************************************************)
EXTENDS Integers, Sequences, FiniteSets

VARIABLES val, text, lit, res, eqres, op, args

vars == <<val, text, lit, res, eqres, op, args>>

-----------------------------------------------------------------------------
(* Characters and decimal digits *)

Digits10 == <<"0", "1", "2", "3", "4", "5", "6", "7", "8", "9">>

DigitChars == {Digits10[i] : i \in 1..10}

\* char::to_digit(10) on a decimal digit
DigitVal(c) == (CHOOSE i \in 1..10 : Digits10[i] = c) - 1

DigitChar(d) == Digits10[d + 1]

\* k zeros (none for k <= 0)
Zeros(k) == [i \in 1..k |-> "0"]

\* i32::MIN
I32Min == (-(2 ^ 30)) * 2

Limb == 2 ^ 16

HalfLimb == 2 ^ 15

\* the decimal digits of a non-negative i32, natural width (at least one digit)
RECURSIVE Dec(_)
Dec(n) == IF n < 10 THEN <<DigitChar(n)>> ELSE Dec(n \div 10) \o <<DigitChar(n % 10)>>

\* the decimal digits of |n| for any i32 n (|i32::MIN| does not fit an i32)
DecAbs(n) ==
    IF n >= 0 THEN Dec(n)
    ELSE IF n = I32Min THEN Dec(214748364) \o <<"8">>
    ELSE Dec(-n)

\* format!("{:0w}", n) for an i32 n: zero padding is sign-aware and never truncates;
\* w = 0 is the plain "{}"
FmtInt(w, n) ==
    LET d == DecAbs(n)
        sign == IF n < 0 THEN <<"-">> ELSE <<>>
    IN sign \o Zeros(w - Len(sign) - Len(d)) \o d

\* i32::abs: overflows on i32::MIN (panic with overflow checks, i32::MIN without)
Abs(x, checks) ==
    IF x = I32Min THEN [panic |-> checks, v |-> I32Min]
    ELSE [panic |-> FALSE, v |-> IF x < 0 THEN -x ELSE x]

\* unary minus on i32: overflows on i32::MIN
Neg(x, checks) ==
    IF x = I32Min THEN [panic |-> checks, v |-> I32Min]
    ELSE [panic |-> FALSE, v |-> -x]

\* num * 10 + d on a u64 held as four 16-bit limbs (wrapping at 2^64)
MulAdd10(x, d) ==
    LET t0 == x[4] * 10 + d
        t1 == x[3] * 10 + (t0 \div Limb)
        t2 == x[2] * 10 + (t1 \div Limb)
        t3 == x[1] * 10 + (t2 \div Limb)
    IN <<t3 % Limb, t2 % Limb, t1 % Limb, t0 % Limb>>

\* x + y on u64 limbs (wrapping at 2^64)
AddU64(x, y) ==
    LET t0 == x[4] + y[4]
        t1 == x[3] + y[3] + (t0 \div Limb)
        t2 == x[2] + y[2] + (t1 \div Limb)
        t3 == x[1] + y[1] + (t2 \div Limb)
    IN <<t3 % Limb, t2 % Limb, t1 % Limb, t0 % Limb>>

\* x * 10^k on u64 limbs (wrapping at 2^64), by halving k; the half-way product y
\* is bound as a value before it is multiplied on
RECURSIVE Times10(_, _)
Times10(x, k) ==
    IF k = 0 THEN x
    ELSE IF k = 1 THEN MulAdd10(x, 0)
    ELSE CHOOSE r \in {Times10(y, k - (k \div 2)) : y \in {Times10(x, k \div 2)}} : TRUE

U64Zero == <<0, 0, 0, 0>>

U64One == <<0, 0, 0, 1>>

\* `x as i32` for a u64 x: the low 32 bits, two's complement
AsI32(x) ==
    IF x[3] >= HalfLimb THEN (x[3] - Limb) * Limb + x[4] ELSE x[3] * Limb + x[4]

\* 10^k modulo 2^64, as limbs
Pow10Limbs(k) == Times10(U64One, k)

\* 10i32.pow(k): exact for k <= 9; beyond that the product overflows an i32
Pow10(k, checks) ==
    IF k <= 9 THEN [panic |-> FALSE, v |-> AsI32(Pow10Limbs(k))]
    ELSE [panic |-> checks, v |-> AsI32(Pow10Limbs(k))]

\* a / b on i32 (truncating toward zero): panics on b = 0 and on i32::MIN / -1
DivI32(a, b) ==
    IF b = 0 \/ (a = I32Min /\ b = -1) THEN [panic |-> TRUE, v |-> 0]
    ELSE IF b = I32Min THEN [panic |-> FALSE, v |-> IF a = I32Min THEN 1 ELSE 0]
    ELSE IF b > 0
         THEN [panic |-> FALSE, v |-> IF a >= 0 THEN a \div b ELSE (a + b - 1) \div b]
         ELSE [panic |-> FALSE,
               v |-> IF a >= 0 THEN -(a \div (-b)) ELSE -((a - b - 1) \div (-b))]

-----------------------------------------------------------------------------
(* util::Scanner: a cursor over the input with one character of lookahead.  Its   *)
(* source is outside this file; it is modelled from its contract and from its use  *)
(* in from_str: read_digits() yields an Option of a value that is cast `as i32`,   *)
(* ndigits() a u32 (it is the argument of i32::pow).  No sampled digit run has a   *)
(* value beyond a u64.                                                             *)

ScannerNew(s) == [s |-> s, pos |-> 1, ndigits |-> 0]

\* Scanner::char: the current character, or "" for None at the end of input
ScannerChar(sc) == IF sc.pos <= Len(sc.s) THEN sc.s[sc.pos] ELSE ""

\* Scanner::next: advance by one character
ScannerNext(sc) == [sc EXCEPT !.pos = sc.pos + 1]

\* the position after the maximal run of decimal digits starting at i: the first
\* position from i on that holds no digit, or the end of the input
RunEnd(s, i) ==
    LET stops == {j \in i..Len(s) : s[j] \notin DigitChars}
    IN IF stops = {} THEN (IF i > Len(s) THEN i ELSE Len(s) + 1)
       ELSE CHOOSE j \in stops : \A k \in stops : j <= k

\* the u64 value of the digits s[i .. e-1]: num = num * 10 + digit over the run,
\* evaluated by halves (value(ab) = value(a) * 10^|b| + value(b)) to keep the
\* evaluation shallow on long runs
RECURSIVE RunValue(_, _, _)
RunValue(s, i, e) ==
    IF i >= e THEN U64Zero
    ELSE IF e - i = 1 THEN MulAdd10(U64Zero, DigitVal(s[i]))
    ELSE LET m == (i + e) \div 2
         IN CHOOSE r \in {AddU64(Times10(a, e - m), b) :
                            a \in {RunValue(s, i, m)}, b \in {RunValue(s, m, e)}} : TRUE

\* Scanner::read_digits: consume the maximal digit run, count its digits, and return
\* its value, or None (some = FALSE) when the run is empty
ScannerReadDigits(sc) ==
    LET e == RunEnd(sc.s, sc.pos)
    IN [sc   |-> [s |-> sc.s, pos |-> e, ndigits |-> e - sc.pos],
        some |-> e > sc.pos,
        num  |-> RunValue(sc.s, sc.pos, e)]

-----------------------------------------------------------------------------
(* The value *)

\* struct IntervalDS
IntervalDS(d, h, mi, s, ns, lf, fs) ==
    [days |-> d, hours |-> h, minutes |-> mi, seconds |-> s, nanoseconds |-> ns,
     lfprec |-> lf, fsprec |-> fs]

\* IntervalDS::new: the components as given, both precisions 9
new(d, h, mi, s, ns) == IntervalDS(d, h, mi, s, ns, 9, 9)

\* IntervalDS::and_prec: the precisions replaced, everything else copied
and_prec(self, lfprec, fsprec) ==
    [self EXCEPT !.lfprec = lfprec, !.fsprec = fsprec]

\* eq as a derived PartialEq would be: the precisions compared too
eqDerived(self, other) ==
    /\ self.days = other.days
    /\ self.hours = other.hours
    /\ self.minutes = other.minutes
    /\ self.seconds = other.seconds
    /\ self.nanoseconds = other.nanoseconds
    /\ self.lfprec = other.lfprec
    /\ self.fsprec = other.fsprec

\* PartialEq::eq
eq(self, other) ==
    /\ self.days = other.days
    /\ self.hours = other.hours
    /\ self.minutes = other.minutes
    /\ self.seconds = other.seconds
    /\ self.nanoseconds = other.nanoseconds

-----------------------------------------------------------------------------
(* Display *)

\* the sign taken from the day component alone
FmtSignDaysOnly(self) == IF self.days < 0 THEN <<"-">> ELSE <<"+">>

\* the sign character written first
FmtSign(self) ==
    IF \/ self.days < 0
       \/ self.hours < 0
       \/ self.minutes < 0
       \/ self.seconds < 0
       \/ self.nanoseconds < 0
    THEN <<"-">>
    ELSE <<"+">>

\* the day field with the fallback arm padding to two digits
FmtDaysPadTwo(lfprec, days) ==
    IF lfprec \in 2..9 THEN FmtInt(lfprec, days) ELSE FmtInt(2, days)

\* the day field: `days` is self.days.abs()
FmtDays(lfprec, days) ==
    CASE lfprec = 2 -> FmtInt(2, days)
      [] lfprec = 3 -> FmtInt(3, days)
      [] lfprec = 4 -> FmtInt(4, days)
      [] lfprec = 5 -> FmtInt(5, days)
      [] lfprec = 6 -> FmtInt(6, days)
      [] lfprec = 7 -> FmtInt(7, days)
      [] lfprec = 8 -> FmtInt(8, days)
      [] lfprec = 9 -> FmtInt(9, days)
      [] OTHER -> FmtInt(0, days)

\* " hh:mm:ss" from the absolute values
FmtTime(hours, minutes, seconds) ==
    <<" ">> \o FmtInt(2, hours) \o <<":">> \o FmtInt(2, minutes)
            \o <<":">> \o FmtInt(2, seconds)

\* the fraction: `nsec` is self.nanoseconds.abs(); i32 division truncates
FmtFrac(fsprec, nsec) ==
    CASE fsprec = 1 -> <<".">> \o FmtInt(1, DivI32(nsec, 100000000).v)
      [] fsprec = 2 -> <<".">> \o FmtInt(2, DivI32(nsec, 10000000).v)
      [] fsprec = 3 -> <<".">> \o FmtInt(3, DivI32(nsec, 1000000).v)
      [] fsprec = 4 -> <<".">> \o FmtInt(4, DivI32(nsec, 100000).v)
      [] fsprec = 5 -> <<".">> \o FmtInt(5, DivI32(nsec, 10000).v)
      [] fsprec = 6 -> <<".">> \o FmtInt(6, DivI32(nsec, 1000).v)
      [] fsprec = 7 -> <<".">> \o FmtInt(7, DivI32(nsec, 100).v)
      [] fsprec = 8 -> <<".">> \o FmtInt(8, DivI32(nsec, 10).v)
      [] fsprec = 9 -> <<".">> \o FmtInt(9, nsec)
      [] OTHER -> <<>>

\* Display::fmt, i.e. to_string(): the text, or a panic when an abs() overflows under
\* overflow checks
fmt(self, checks) ==
    LET days    == Abs(self.days, checks)
        hours   == Abs(self.hours, checks)
        minutes == Abs(self.minutes, checks)
        seconds == Abs(self.seconds, checks)
        nsec    == Abs(self.nanoseconds, checks)
    IN IF days.panic \/ hours.panic \/ minutes.panic \/ seconds.panic \/ nsec.panic
       THEN [st |-> "panic", s |-> <<>>]
       ELSE [st |-> "some",
             s  |-> FmtSign(self) \o FmtDays(self.lfprec, days.v)
                    \o FmtTime(hours.v, minutes.v, seconds.v)
                    \o FmtFrac(self.fsprec, nsec.v)]

-----------------------------------------------------------------------------
(* FromStr *)

\* the payload of a result that carries no value
NoValue == IntervalDS(0, 0, 0, 0, 0, 0, 0)

\* Err(ParseOracleTypeError::new("IntervalDS"))
ParseErr == [tag |-> "Err", v |-> NoValue]

\* an arithmetic panic: from_str does not return
ParsePanic == [tag |-> "Panic", v |-> NoValue]

ParseOk(v) == [tag |-> "Ok", v |-> v]

\* the sign scan without the '+' arm
ScanSignMinusOnly(sc) ==
    IF ScannerChar(sc) = "-"
    THEN [sc |-> ScannerNext(sc), minus |-> TRUE]
    ELSE [sc |-> sc, minus |-> FALSE]

\* the optional sign: the scanner after it, and whether it was '-'
ScanSign(sc) ==
    CASE ScannerChar(sc) = "+" -> [sc |-> ScannerNext(sc), minus |-> FALSE]
      [] ScannerChar(sc) = "-" -> [sc |-> ScannerNext(sc), minus |-> TRUE]
      [] OTHER -> [sc |-> sc, minus |-> FALSE]

\* `ndigit as u8` for the u32 digit count
AsU8(n) == n % 256

\* the fraction scaled by one power of ten too few
NormFracShort(nsecs, ndigit, checks) ==
    IF ndigit < 9
    THEN [panic |-> FALSE, nsecs |-> nsecs * Pow10(8 - ndigit, checks).v,
          fsprec |-> ndigit]
    ELSE [panic |-> FALSE, nsecs |-> nsecs, fsprec |-> 9]

\* the fraction normalised to nanoseconds: nsecs is the digit run `as i32`, ndigit
\* its digit count; the precision is the digit count, clamped to 9
NormFrac(nsecs, ndigit, checks) ==
    IF ndigit < 9
    THEN [panic |-> FALSE, nsecs |-> nsecs * Pow10(9 - ndigit, checks).v,
          fsprec |-> ndigit]
    ELSE IF ndigit > 9
    THEN LET p == Pow10(ndigit - 9, checks)
             q == DivI32(nsecs, p.v)
         IN [panic |-> p.panic \/ q.panic, nsecs |-> q.v, fsprec |-> 9]
    ELSE [panic |-> FALSE, nsecs |-> nsecs, fsprec |-> ndigit]

\* the optional '.' and fraction after the seconds: the scanner after it, the
\* nanoseconds and the precision (0 and 0 without a '.')
ScanFrac(sc, checks) ==
    IF ScannerChar(sc) = "."
    THEN LET r == ScannerReadDigits(ScannerNext(sc))
             n == NormFrac(AsI32(r.num), r.sc.ndigits, checks)
         IN [sc |-> r.sc, err |-> ~r.some, panic |-> r.some /\ n.panic,
             nsecs |-> n.nsecs, fsprec |-> n.fsprec]
    ELSE [sc |-> sc, err |-> FALSE, panic |-> FALSE, nsecs |-> 0, fsprec |-> 0]

\* the struct built at the end: every component negated when the sign was '-'
Signed(minus, days, hours, minutes, seconds, nsecs, lfprec, fsprec, checks) ==
    IF ~minus
    THEN ParseOk(IntervalDS(days, hours, minutes, seconds, nsecs,
                            AsU8(lfprec), AsU8(fsprec)))
    ELSE LET d  == Neg(days, checks)
             h  == Neg(hours, checks)
             mi == Neg(minutes, checks)
             s  == Neg(seconds, checks)
             ns == Neg(nsecs, checks)
         IN IF d.panic \/ h.panic \/ mi.panic \/ s.panic \/ ns.panic
            THEN ParsePanic
            ELSE ParseOk(IntervalDS(d.v, h.v, mi.v, s.v, ns.v,
                                    AsU8(lfprec), AsU8(fsprec)))

\* FromStr::from_str
from_str(s, checks) ==
    LET sg == ScanSign(ScannerNew(s))
        dy == ScannerReadDigits(sg.sc)
        hr == ScannerReadDigits(ScannerNext(dy.sc))
        mn == ScannerReadDigits(ScannerNext(hr.sc))
        se == ScannerReadDigits(ScannerNext(mn.sc))
        fr == ScanFrac(se.sc, checks)
    IN IF ~dy.some THEN ParseErr
       ELSE IF ScannerChar(dy.sc) # " " THEN ParseErr
       ELSE IF ~hr.some THEN ParseErr
       ELSE IF ScannerChar(hr.sc) # ":" THEN ParseErr
       ELSE IF ~mn.some THEN ParseErr
       ELSE IF ScannerChar(mn.sc) # ":" THEN ParseErr
       ELSE IF ~se.some THEN ParseErr
       ELSE IF fr.err THEN ParseErr
       ELSE IF fr.panic THEN ParsePanic
       ELSE IF ScannerChar(fr.sc) # "" THEN ParseErr
       ELSE Signed(sg.minus, AsI32(dy.num), AsI32(hr.num), AsI32(mn.num),
                   AsI32(se.num), fr.nsecs, dy.sc.ndigits, fr.fsprec, checks)

-----------------------------------------------------------------------------
(* Sampled inputs *)

\* precisions passed to and_prec are 0 .. MaxPrec: every branch of the encoder's two
\* matches, and a u8 beyond them
MaxPrec == 10

\* day fields of the sampled literals are zero-padded up to this width
MaxDayWidth == 10

\* the longest run of zeros among the sampled literals: one more than a u8 holds
LongRun == 256

\* a fraction so long that 10i32.pow(ndigit - 9) wraps to zero
ZeroPowRun == 41

Precs == 0..MaxPrec

DaySamples == {0, 1, 999999999}

TimeSamples == {<<0, 0, 0>>, <<2, 3, 4>>, <<23, 59, 59>>}

NanoSamples == {0, 5, 123456789, 500000000, 999999999}

\* argument tuples of new(): every sampled magnitude with all components >= 0 and
\* with all components <= 0, and two tuples of mixed sign
NewArgs ==
    {<<sg * d, sg * t[1], sg * t[2], sg * t[3], sg * n>> :
        sg \in {1, -1}, d \in DaySamples, t \in TimeSamples, n \in NanoSamples}
    \cup {<<1, -2, 3, -4, 5>>, <<-1, 2, 3, 4, 500000000>>}

SignTexts == {<<>>, <<"+">>, <<"-">>}

DayTexts ==
    {FmtInt(w, d) : w \in {0, 2, 9, MaxDayWidth}, d \in DaySamples}
    \cup {Dec(300000000) \o <<"0">>, DecAbs(I32Min), Zeros(LongRun)}

TimeTexts ==
    {FmtInt(2, t[1]) \o <<":">> \o FmtInt(2, t[2]) \o <<":">> \o FmtInt(2, t[3]) :
        t \in TimeSamples}
    \cup {<<"2", ":", "3", ":", "4">>, <<"2", "4", ":", "6", "0", ":", "6", "0">>}

FracTexts ==
    {<<>>}
    \cup {<<".">> \o Dec(n) : n \in {5, 12, 50, 123456789, 1234567891}}
    \cup {<<".">> \o FmtInt(9, 5)}
    \cup {<<".">> \o Dec(n) \o <<"0">> : n \in {300000000, 500000000}}
    \cup {<<".">> \o Zeros(ZeroPowRun), <<".">> \o FmtInt(19, 1)}

\* literals of the decoder's grammar
GrammarInputs ==
    {sg \o d \o <<" ">> \o t \o f :
        sg \in SignTexts, d \in DayTexts, t \in TimeTexts, f \in FracTexts}

BaseLiteral == <<"-", "0", "1", " ", "0", "2", ":", "0", "3", ":", "0", "4", ".", "5", "0">>

\* the base literal cut short, with one character dropped, and with one foreign
\* character inserted, at every position
BrokenInputs ==
    {SubSeq(BaseLiteral, 1, i) : i \in 0..Len(BaseLiteral)}
    \cup {SubSeq(BaseLiteral, 1, i - 1) \o SubSeq(BaseLiteral, i + 1, Len(BaseLiteral)) :
            i \in 1..Len(BaseLiteral)}
    \cup {SubSeq(BaseLiteral, 1, i) \o <<"x">> \o SubSeq(BaseLiteral, i + 1, Len(BaseLiteral)) :
            i \in 0..Len(BaseLiteral)}

Inputs == GrammarInputs \cup BrokenInputs

-----------------------------------------------------------------------------
(* The state machine: a program holding an optional IntervalDS `val`, an optional *)
(* string `text` (an input literal, or val.to_string()), the literal `lit` that   *)
(* val was parsed from, the result `res` of the last text.parse(), and the result *)
(* `eqres` of the last ==, and the arguments `args` of the and_prec that made val. *)

NoVal == [some |-> FALSE, v |-> NoValue]

SomeVal(v) == [some |-> TRUE, v |-> v]

NoText == [st |-> "none", s |-> <<>>]

SomeText(s) == [st |-> "some", s |-> s]

NoRes == [tag |-> "None", v |-> NoValue]

\* either a value was constructed with new(), or an input literal is at hand
Init ==
    /\ \/ /\ \E a \in NewArgs : val = SomeVal(new(a[1], a[2], a[3], a[4], a[5]))
          /\ text = NoText
          /\ op = "new"
       \/ /\ val = NoVal
          /\ \E s \in Inputs : text = SomeText(s)
          /\ op = "input"
    /\ lit = NoText
    /\ res = NoRes
    /\ eqres = FALSE
    /\ args = <<>>

\* val = val.and_prec(l, f), on a value not yet rendered or parsed
AndPrec ==
    /\ val.some /\ text.st = "none" /\ lit.st = "none"
    /\ \E l \in Precs, f \in Precs :
          /\ val' = SomeVal(and_prec(val.v, l, f))
          /\ args' = <<l, f>>
    /\ op' = "and_prec"
    /\ UNCHANGED <<text, lit, res, eqres>>

\* text = val.to_string()
Display ==
    /\ val.some
    /\ \E checks \in BOOLEAN : text' = fmt(val.v, checks)
    /\ res' = NoRes
    /\ eqres' = FALSE
    /\ op' = "to_string"
    /\ UNCHANGED <<val, lit, args>>

\* res = text.parse::<IntervalDS>()
FromStr ==
    /\ text.st = "some"
    /\ \E checks \in BOOLEAN : res' = from_str(text.s, checks)
    /\ eqres' = FALSE
    /\ op' = "from_str"
    /\ UNCHANGED <<val, text, lit, args>>

\* eqres = (res.unwrap() == val)
Eq ==
    /\ val.some /\ res.tag = "Ok"
    /\ eqres' = eq(res.v, val.v)
    /\ op' = "eq"
    /\ UNCHANGED <<val, text, lit, res, args>>

\* val = res.unwrap(), remembering the literal it came from
Unwrap ==
    /\ res.tag = "Ok"
    /\ val' = SomeVal(res.v)
    /\ lit' = SomeText(text.s)
    /\ text' = NoText
    /\ res' = NoRes
    /\ eqres' = FALSE
    /\ op' = "unwrap"
    /\ args' = <<>>

Next == AndPrec \/ Display \/ FromStr \/ Eq \/ Unwrap

Spec == Init /\ [][Next]_vars

-----------------------------------------------------------------------------
(* Vocabulary of the properties *)

Mag(x) == IF x < 0 THEN -x ELSE x

\* the documented domain of new()'s arguments
InDomain(v) ==
    /\ v.days \in -999999999..999999999
    /\ v.hours \in -23..23
    /\ v.minutes \in -59..59
    /\ v.seconds \in -59..59
    /\ v.nanoseconds \in -999999999..999999999

Components(v) == <<v.days, v.hours, v.minutes, v.seconds, v.nanoseconds>>

AllAtLeastZero(v) == \A i \in 1..5 : Components(v)[i] >= 0

AllAtMostZero(v) == \A i \in 1..5 : Components(v)[i] <= 0

SignConsistent(v) == AllAtLeastZero(v) \/ AllAtMostZero(v)

SameComponents(a, b) == Components(a) = Components(b)

\* digits left-padded with zeros to width w (never cut)
PadTo(w, digits) ==
    IF Len(digits) < w THEN Zeros(w - Len(digits)) \o digits ELSE digits

\* n truncated toward zero to a multiple of 10^(9-p), for p in 0..9
TruncNanos(n, p) ==
    LET unit == 10 ^ (9 - p)
        m    == (Mag(n) \div unit) * unit
    IN IF n < 0 THEN -m ELSE m

\* the state after text.parse() where text is val.to_string()
ParsedDisplay == op = "from_str" /\ val.some /\ text.st = "some"

\* the least element of a non-empty set of numbers
Least(S) == CHOOSE x \in S : \A y \in S : x <= y

\* the first position of character c in s, 0 when there is none
FirstIndex(s, c) ==
    LET hits == {i \in 1..Len(s) : s[i] = c}
    IN IF hits = {} THEN 0 ELSE Least(hits)

\* the last position of character c in s, 0 when there is none
LastIndex(s, c) ==
    LET hits == {i \in 1..Len(s) : s[i] = c}
    IN IF hits = {} THEN 0 ELSE CHOOSE x \in hits : \A y \in hits : y <= x

\* s[i..j] is a non-empty run of digits
DigitRun(s, i, j) == i <= j /\ \A k \in i..j : s[k] \in DigitChars

\* where the fields of a literal lie: the day field starts at `day`, the delimiters
\* are at `sp`, `c1`, `c2` and (0 if absent) `dot`, the seconds end at `secEnd`
Layout(s) ==
    LET dot == FirstIndex(s, ".")
    IN [day    |-> IF Len(s) > 0 /\ s[1] \in {"+", "-"} THEN 2 ELSE 1,
        sp     |-> FirstIndex(s, " "),
        c1     |-> FirstIndex(s, ":"),
        c2     |-> LastIndex(s, ":"),
        dot    |-> dot,
        secEnd |-> IF dot = 0 THEN Len(s) ELSE dot - 1]

\* s matches [sign] digits SP digits ':' digits ':' digits ['.' digits] in full
MatchesGrammar(s) ==
    LET p == Layout(s)
    IN /\ p.sp > 0 /\ p.c1 > p.sp /\ p.c2 > p.c1
       /\ DigitRun(s, p.day, p.sp - 1)
       /\ DigitRun(s, p.sp + 1, p.c1 - 1)
       /\ DigitRun(s, p.c1 + 1, p.c2 - 1)
       /\ DigitRun(s, p.c2 + 1, p.secEnd)
       /\ p.dot > 0 => DigitRun(s, p.dot + 1, Len(s))

\* the digit runs of a literal that matches the grammar
DayRun(s) == SubSeq(s, Layout(s).day, Layout(s).sp - 1)

HourRun(s) == SubSeq(s, Layout(s).sp + 1, Layout(s).c1 - 1)

MinuteRun(s) == SubSeq(s, Layout(s).c1 + 1, Layout(s).c2 - 1)

SecondRun(s) == SubSeq(s, Layout(s).c2 + 1, Layout(s).secEnd)

FracRun(s) == IF Layout(s).dot = 0 THEN <<>> ELSE SubSeq(s, Layout(s).dot + 1, Len(s))

\* a digit run without its leading zeros (a single "0" for a run of zeros)
Significant(run) ==
    LET nz == {i \in 1..Len(run) : run[i] # "0"}
    IN IF nz = {} THEN <<"0">> ELSE SubSeq(run, Least(nz), Len(run))

\* the i32 x has the magnitude that the digit run denotes
MagnitudeIs(x, run) == DecAbs(x) = Significant(run)

\* the canonical literals: a sign, 1..9 day digits, two-digit hours, minutes and
\* seconds, and optionally 1..9 fraction digits
Canonical(s) ==
    /\ MatchesGrammar(s)
    /\ s[1] \in {"+", "-"}
    /\ Len(DayRun(s)) \in 1..9
    /\ Len(HourRun(s)) = 2 /\ Len(MinuteRun(s)) = 2 /\ Len(SecondRun(s)) = 2
    /\ Layout(s).dot > 0 => Len(FracRun(s)) \in 1..9

\* every digit of s is a zero
AllDigitsZero(s) == \A i \in 1..Len(s) : s[i] \in DigitChars => s[i] = "0"

-----------------------------------------------------------------------------
(* C6 *)

\* C6: two values are equal iff their five components are pairwise equal, whatever
\* their precisions; v.and_prec(l, f) == v, and and_prec keeps the five components
\* and sets lfprec = l and fsprec = f.
C6_EqualityIgnoresPrecision ==
    [][/\ op' = "and_prec" =>
            /\ eq(val'.v, val.v)
            /\ SameComponents(val'.v, val.v)
            /\ val'.v.lfprec = args'[1]
            /\ val'.v.fsprec = args'[2]
       /\ op' = "eq" => (eqres' <=> SameComponents(res.v, val.v))]_vars

\* an and_prec'ed value compared equal to a value of other precisions
C6_Witness ==
    /\ op = "eq" /\ eqres
    /\ args # <<>> /\ val.v.lfprec = args[1] /\ args[1] # 9
    /\ res.v.lfprec # val.v.lfprec
    /\ res.v.fsprec # val.v.fsprec

-----------------------------------------------------------------------------
(* C7 *)

\* the reference rendering of the encoder's contract
RefText(v) ==
    LET sign == IF \E i \in 1..5 : Components(v)[i] < 0 THEN "-" ELSE "+"
        days == IF v.lfprec \in 2..9
                THEN PadTo(v.lfprec, Dec(Mag(v.days)))
                ELSE Dec(Mag(v.days))
        frac == IF v.fsprec \in 1..9
                THEN <<".">> \o PadTo(v.fsprec,
                                      Dec(Mag(v.nanoseconds) \div (10 ^ (9 - v.fsprec))))
                ELSE <<>>
    IN <<sign>> \o days \o <<" ">>
       \o PadTo(2, Dec(Mag(v.hours))) \o <<":">>
       \o PadTo(2, Dec(Mag(v.minutes))) \o <<":">>
       \o PadTo(2, Dec(Mag(v.seconds))) \o frac

\* C7: for every in-domain value and every precision pair, to_string() is the sign
\* ('-' iff some component is negative), |days| padded to lfprec digits when lfprec is
\* in 2..9 and unpadded otherwise, " hh:mm:ss" of the magnitudes, and for fsprec = p in
\* 1..9 a '.' and floor(|nanoseconds| / 10^(9-p)) padded to p digits, else nothing.
C7_EncoderMatchesReference ==
    (op = "to_string" /\ InDomain(val.v)) => text = SomeText(RefText(val.v))

\* a negative value whose only non-zero component is the nanoseconds, padded days and a
\* truncating fraction
C7_Witness ==
    /\ op = "to_string" /\ InDomain(val.v)
    /\ val.v.days = 0 /\ val.v.nanoseconds = -123456789
    /\ val.v.lfprec \in 2..9 /\ val.v.fsprec \in 1..8
    /\ text.st = "some"

-----------------------------------------------------------------------------
(* C1 *)

\* the values the round trip is claimed for
RoundTripValue(v) ==
    /\ InDomain(v) /\ SignConsistent(v)
    /\ v.fsprec \in 0..9
    /\ v.lfprec \in {0} \cup 2..9

\* C1 as stated: for an in-domain, sign-consistent v with fsprec in 0..9 and lfprec in
\* {0} or 2..9, parsing v.to_string() succeeds and yields v's five components.
C1_RoundTripOnValues ==
    (ParsedDisplay /\ RoundTripValue(val.v)) =>
        (res.tag = "Ok" /\ SameComponents(res.v, val.v))

\* C1 amended: ... parsing v.to_string() succeeds and yields v's days, hours, minutes
\* and seconds, and v's nanoseconds truncated toward zero to a multiple of
\* 10^(9 - fsprec).
C1_RoundTripUpToPrecision ==
    (ParsedDisplay /\ RoundTripValue(val.v)) =>
        /\ res.tag = "Ok"
        /\ res.v.days = val.v.days
        /\ res.v.hours = val.v.hours
        /\ res.v.minutes = val.v.minutes
        /\ res.v.seconds = val.v.seconds
        /\ res.v.nanoseconds = TruncNanos(val.v.nanoseconds, val.v.fsprec)

\* a negative value parsed back from a rendering that dropped fraction digits
C1_Witness ==
    /\ ParsedDisplay /\ RoundTripValue(val.v)
    /\ val.v.days < 0 /\ val.v.fsprec \in 1..8
    /\ res.tag = "Ok"
    /\ res.v.nanoseconds # 0
    /\ res.v.nanoseconds # val.v.nanoseconds

-----------------------------------------------------------------------------
(* C2 *)

\* the state after lit.parse().unwrap().to_string()
Reencoded == op = "to_string" /\ lit.st = "some"

\* C2 as stated: every canonical literal parses, and the parsed value renders as the
\* literal, character for character.
C2_RoundTripOnText ==
    /\ (op = "from_str" /\ Canonical(text.s)) => res.tag = "Ok"
    /\ (Reencoded /\ Canonical(lit.s)) => text = SomeText(lit.s)

\* C2 amended: every canonical literal parses, and the parsed value renders as the
\* literal, except that a literal with sign '-' all of whose digits are 0 renders
\* with sign '+' (and is otherwise unchanged).
C2_RoundTripOnTextButMinusZero ==
    /\ (op = "from_str" /\ Canonical(text.s)) => res.tag = "Ok"
    /\ (Reencoded /\ Canonical(lit.s)) =>
          text = SomeText(IF lit.s[1] = "-" /\ AllDigitsZero(lit.s)
                          THEN <<"+">> \o Tail(lit.s)
                          ELSE lit.s)

\* a negative literal with a one-digit day field and a short fraction, re-encoded
C2_Witness ==
    /\ Reencoded /\ Canonical(lit.s)
    /\ lit.s[1] = "-" /\ ~AllDigitsZero(lit.s)
    /\ Len(DayRun(lit.s)) = 1
    /\ Len(FracRun(lit.s)) \in 1..8
    /\ text.st = "some"

-----------------------------------------------------------------------------
(* C3 *)

\* s is the rendering of some in-domain value under some precision pair in 0..9.  A
\* value that renders as s has the magnitudes s parses to, up to fraction digits the
\* rendering dropped, so the candidates are the parse of s and, for a "-" rendering of
\* zero magnitudes, the parse with a negative nanosecond that the rendering drops.
IsEncoderOutput(s) ==
    LET r == from_str(s, FALSE)
    IN /\ r.tag = "Ok"
       /\ \E v \in {r.v, [r.v EXCEPT !.nanoseconds = -1]} :
             /\ InDomain(v)
             /\ \E l \in 0..9, f \in 0..9 : fmt(and_prec(v, l, f), FALSE).s = s

\* C3 as stated: from_str returns Ok exactly for the strings that are the rendering of
\* some in-domain value with both precisions in 0..9.
C3_AcceptsExactlyEncoderOutput ==
    op = "from_str" => (res.tag = "Ok" <=> IsEncoderOutput(text.s))

\* C3 amended: from_str returns Ok for every string that is the rendering of an
\* in-domain value with both precisions in 0..9 (the converse does not hold).
C3_AcceptsEncoderOutput ==
    (ParsedDisplay /\ InDomain(val.v) /\ val.v.lfprec \in 0..9 /\ val.v.fsprec \in 0..9)
        => res.tag = "Ok"

\* the rendering of a non-negative value, with padded days and a fraction, parsed
C3_Witness ==
    /\ ParsedDisplay /\ InDomain(val.v)
    /\ AllAtLeastZero(val.v) /\ val.v.days > 0
    /\ val.v.lfprec \in 2..9 /\ val.v.fsprec \in 1..9
    /\ res.tag = "Ok"

-----------------------------------------------------------------------------
(* C4 *)

\* the state after a parse that returned Ok
Accepted == op = "from_str" /\ res.tag = "Ok"

\* C4: every value from_str returns has lfprec in 0..9 and fsprec in 0..9.
C4_PrecisionBounds ==
    Accepted => (res.v.lfprec \in 0..9 /\ res.v.fsprec \in 0..9)

-----------------------------------------------------------------------------
(* C5 *)

\* C5: from_str returns Err when a digit run is empty, a delimiter is missing, a '.'
\* is followed by no digit or a character is left over, that is, when the input does
\* not match the grammar in full; and it returns Ok for every input that does.
C5_ErrIffMalformed ==
    op = "from_str" =>
        IF MatchesGrammar(text.s) THEN res.tag = "Ok" ELSE res.tag = "Err"

-----------------------------------------------------------------------------
(* C8 *)

\* the nanoseconds have the magnitude that nine fraction digits denote
NanosAre(x, nine) == PadTo(9, DecAbs(x)) = nine

\* C8: for an accepted input whose fraction has more than nine digits, fsprec is 9 and
\* |nanoseconds| is the number written by the first nine fraction digits.
C8_OverLengthFractionClamp ==
    (Accepted /\ Len(FracRun(text.s)) > 9) =>
        /\ res.v.fsprec = 9
        /\ NanosAre(res.v.nanoseconds, SubSeq(FracRun(text.s), 1, 9))

-----------------------------------------------------------------------------
(* C9 *)

\* C9: for an accepted input, signed or not, lfprec is the number of digits of the day
\* field; fsprec is the number of fraction digits when that is 1..9, and is 0 with
\* nanoseconds 0 when there is no '.'; for d < 9 fraction digits of value F the
\* magnitude of the nanoseconds is F * 10^(9-d).
C9_ParseDerivedPrecision ==
    Accepted =>
        LET d == Len(FracRun(text.s))
        IN /\ res.v.lfprec = Len(DayRun(text.s))
           /\ d \in 1..9 => res.v.fsprec = d
           /\ Layout(text.s).dot = 0 => (res.v.fsprec = 0 /\ res.v.nanoseconds = 0)
           /\ d \in 1..8 => NanosAre(res.v.nanoseconds, FracRun(text.s) \o Zeros(9 - d))

-----------------------------------------------------------------------------
(* C10 *)

\* C10: for an accepted input that starts with '-', all five components are <= 0 and
\* days, hours, minutes and seconds are the negated values of their digit runs; for
\* any other accepted input all five components are >= 0.
C10_DecoderSignConsistent ==
    Accepted =>
        IF text.s[1] = "-"
        THEN /\ AllAtMostZero(res.v)
             /\ MagnitudeIs(res.v.days, DayRun(text.s))
             /\ MagnitudeIs(res.v.hours, HourRun(text.s))
             /\ MagnitudeIs(res.v.minutes, MinuteRun(text.s))
             /\ MagnitudeIs(res.v.seconds, SecondRun(text.s))
        ELSE AllAtLeastZero(res.v)

=============================================================================
